---- MODULE Spec2Model ----
(***************************************************************************)
(* Model of s3server.py: the multipart-upload reassembly engine            *)
(* (_MultipartUploader, MultipartUploaderFactory and the ObjectHandler     *)
(* requests that drive them), the key listing of BucketHandler.get and the *)
(* path resolution of BaseRequestHandler._object_path.                     *)
(*                                                                         *)
(* Requests are served by concurrent threads.  Every statement that is not *)
(* protected by a lock is a step of its own; a block under `with lock` is  *)
(* one step per loop iteration, taken while the lock is held.              *)
(***************************************************************************)
EXTENDS Integers, Sequences, FiniteSets, TLC

\* ------------------------------------------------------------------ bounds
NThreads == 2
MaxUploads == 2
MaxPart == 3
MaxRequests == 4

Threads == 1..NThreads
UploadIds == 1..MaxUploads
\* int(part_number) of ObjectHandler.put: any integer the client sends; zero
\* stands for the non-positive ones.
PartNumbers == 0..MaxPart
\* The body of a request.  The code never inspects the bytes of a part, so
\* bodies that differ from request to request stand for all bodies: the n-th
\* request carries the one byte n.
Body(n) == <<n>>

\* Python's None where a byte string, a session or a lock holder is expected
None == <<-1>>
NoSession == 0
NoThread == 0

VARIABLES
    multipart_uploaders,   \* the registry: the set of registered upload ids
    created,               \* upload ids generated so far (uuid4 values are fresh)
    part_number,           \* [id -> _MultipartUploader.part_number]
    buffers,               \* [id -> [part number -> _MultipartBuffer]]
    file,                  \* [id -> bytes written through _MultipartUploader.file]
    closed,                \* [id -> the file object is closed]
    exists,                \* [id -> the destination path names a file]
    lock,                  \* [id -> holder of _MultipartUploader.lock or NoThread]
    pc,                    \* [thread -> position in its request]
    req,                   \* [thread -> the request it serves]
    outcome,               \* how the request that ended last ended
    nreq,                  \* requests started so far
    received,              \* history: [id -> [part number -> bytes accepted]]
    arrival,               \* history: [id -> part numbers in the order write stored them]
    etags,                 \* history: [id -> [part number -> ETag write_part returned]]
    returned,              \* history: [id -> calls among close/abort that returned]
    response,              \* history: [id -> the part lists complete has answered]
    objects,               \* the keys of the objects stored in the bucket
    listing,               \* the last answer of BucketHandler.get
    walk,                  \* history: the pages a client has asked for in a row
    bucket_depth,          \* S3Application.bucket_depth
    dirs,                  \* the directories under the storage root
    files,                 \* the files under the storage root
    answer                 \* how the last object request by key ended

uploadVars == <<multipart_uploaders, created, part_number, buffers, file, closed,
                exists, lock, pc, req, outcome, nreq, received, arrival, etags,
                returned, response>>
listVars == <<objects, listing, walk>>
pathVars == <<bucket_depth, dirs, files, answer>>
vars == <<uploadVars, listVars, pathVars>>

\* hashlib.md5(data).hexdigest(): a digest that tells the payloads apart
Md5(data) == [md5 |-> data]

\* _MultipartBuffer.__init__
MultipartBuffer(data) == [data |-> data, md5sum |-> Md5(data)]

\* _MultipartBuffer.forget_data
ForgetData(buf) == [buf EXCEPT !.data = None]

NoRequest == [op |-> "none", uid |-> 0, pn |-> 0, data |-> <<>>, late |-> FALSE]
NoOutcome == [op |-> "none", uid |-> 0, pn |-> 0, status |-> "none", late |-> FALSE]

Ended(t, status) ==
    [op |-> req[t].op, uid |-> req[t].uid, pn |-> req[t].pn, status |-> status,
     late |-> req[t].late]

\* the request of thread t is over: the handler returned or raised `status`
Finish(t, status) ==
    /\ pc' = [pc EXCEPT ![t] = "idle"]
    /\ outcome' = Ended(t, status)
    /\ req' = [req EXCEPT ![t] = NoRequest]


\* ---------------------------------------------------------- the registry
\* MultipartUploaderFactory(upload_id, None): the registered session of the
\* id, or None when there is no such upload
Lookup(u) == IF u \in multipart_uploaders THEN u ELSE NoSession

\* uuid.uuid4().hex: an id no earlier call has produced
FreshId == CHOOSE u \in UploadIds \ created : \A v \in UploadIds \ created : u <= v

NewRequest(op, u, pn, data) ==
    [op |-> op, uid |-> u, pn |-> pn, data |-> data,
     late |-> u \in UploadIds /\ "abort" \in returned[u]]

\* a request is taken up by an idle thread (the threads are interchangeable:
\* the first idle one takes it)
Accept(t) ==
    /\ pc[t] = "idle"
    /\ \A s \in Threads : pc[s] = "idle" => t <= s
    /\ nreq < MaxRequests
    /\ nreq' = nreq + 1

\* ObjectHandler.post without uploadId: MultipartUploaderFactory(gen_id, path)
\* builds the session (_MultipartUploader.__init__) and registers it
InitiateUpload(t) ==
    /\ Accept(t)
    /\ created # UploadIds
    /\ LET u == FreshId IN
        /\ created' = created \cup {u}
        /\ multipart_uploaders' = multipart_uploaders \cup {u}
        /\ part_number' = [part_number EXCEPT ![u] = 1]
        /\ buffers' = [buffers EXCEPT ![u] = <<>>]
        /\ file' = [file EXCEPT ![u] = <<>>]
        /\ closed' = [closed EXCEPT ![u] = FALSE]
        /\ exists' = [exists EXCEPT ![u] = TRUE]
        /\ outcome' = [op |-> "initiate", uid |-> u, pn |-> 0, status |-> "ok",
                       late |-> FALSE]
    /\ UNCHANGED <<lock, pc, req, received, arrival, etags, returned, response>>
    /\ UNCHANGED <<listVars, pathVars>>

\* the head of a request that names an upload id: resolve the session or
\* answer 404 "No such upload ID"
Resolve(t, r, first) ==
    /\ Accept(t)
    /\ IF Lookup(r.uid) = NoSession
       THEN /\ outcome' = [op |-> r.op, uid |-> r.uid, pn |-> r.pn,
                            status |-> "NoSuchUpload", late |-> r.late]
            /\ UNCHANGED <<pc, req>>
       ELSE /\ pc' = [pc EXCEPT ![t] = first]
            /\ req' = [req EXCEPT ![t] = r]
            /\ UNCHANGED outcome
    /\ UNCHANGED <<multipart_uploaders, created, part_number, buffers, file, closed,
                   exists, lock, received, arrival, etags, returned, response>>
    /\ UNCHANGED <<listVars, pathVars>>

\* ObjectHandler.put with partNumber and uploadId
PutPart(t) ==
    \E u \in UploadIds, pn \in PartNumbers :
        Resolve(t, NewRequest("write", u, pn, Body(nreq + 1)), "write")

\* ObjectHandler.post with uploadId
CompleteUpload(t) ==
    \E u \in UploadIds : Resolve(t, NewRequest("complete", u, 0, <<>>), "twc_lock")

\* ObjectHandler.delete with uploadId
AbortUpload(t) ==
    \E u \in UploadIds : Resolve(t, NewRequest("abort", u, 0, <<>>), "abort_close")

\* ---------------------------------------------------- _MultipartUploader
Session(t) == req[t].uid

\* mutant of AlreadyReceived: only the parts that still hold their bytes count
AlreadyBuffered(u, pn) == pn \in DOMAIN buffers[u] /\ buffers[u][pn].data # None

\* line 390: part_number in self.buffers
AlreadyReceived(u, pn) == pn \in DOMAIN buffers[u]

\* line 395: self.buffers[part_number] = _MultipartBuffer(data)
Store(u, pn, data) == (pn :> MultipartBuffer(data)) @@ buffers[u]

\* mutant of Flushable: the loop runs for the first part only
FlushableFirstOnly(u) == part_number[u] = 1 /\ 1 \in DOMAIN buffers[u]

\* line 400: self.part_number in self.buffers
Flushable(u) == part_number[u] \in DOMAIN buffers[u]

\* mutant of FileWrite: the part goes in front of the bytes written so far
FileWriteInFront(u) == buffers[u][part_number[u]].data \o file[u]

\* line 401: self.file.write(self.buffers[self.part_number].data)
FileWrite(u) == file[u] \o buffers[u][part_number[u]].data

\* mutant of Forget: the bytes of every stored part are dropped
ForgetAll(u) == [pn \in DOMAIN buffers[u] |-> ForgetData(buffers[u][pn])]

\* line 402: self.buffers[self.part_number].forget_data()
Forget(u) == [buffers[u] EXCEPT ![part_number[u]] = ForgetData(@)]

\* mutant of NextPart: the cursor steps over a part
NextPartSkips(u) == part_number[u] + 2

\* line 403: self.part_number = self.part_number + 1
NextPart(u) == part_number[u] + 1

\* mutant of Unlocked: the lock stays with its holder
StillLocked(u) == lock

\* lines 389 and 399: the `with self.lock` block is left, by its end or by an
\* exception, and the lock released
Unlocked(u) == [lock EXCEPT ![u] = NoThread]

\* _MultipartUploader.write, lines 389-395: under the session lock, refuse a
\* part number that is in the buffers, else store the part
Write(t) ==
    /\ pc[t] = "write"
    /\ LET u == Session(t) IN
        /\ lock[u] = NoThread
        /\ IF AlreadyReceived(u, req[t].pn)
           THEN /\ Finish(t, "DuplicatePart")
                /\ UNCHANGED <<buffers, received, arrival>>
           ELSE /\ buffers' = [buffers EXCEPT ![u] = Store(u, req[t].pn, req[t].data)]
                /\ received' = [received EXCEPT ![u] = (req[t].pn :> req[t].data) @@ @]
                /\ arrival' = [arrival EXCEPT ![u] = Append(@, req[t].pn)]
                /\ pc' = [pc EXCEPT ![t] = "twc_lock"]
                /\ UNCHANGED <<req, outcome>>
    /\ UNCHANGED <<multipart_uploaders, created, part_number, file, closed, exists,
                   lock, nreq, etags, returned, response>>
    /\ UNCHANGED <<listVars, pathVars>>

\* trigger_write_completion, line 399: take the session lock
TwcLock(t) ==
    /\ pc[t] = "twc_lock"
    /\ lock[Session(t)] = NoThread
    /\ lock' = [lock EXCEPT ![Session(t)] = t]
    /\ pc' = [pc EXCEPT ![t] = "twc_loop"]
    /\ UNCHANGED <<multipart_uploaders, created, part_number, buffers, file, closed,
                   exists, req, outcome, nreq, received, arrival, etags, returned,
                   response>>
    /\ UNCHANGED <<listVars, pathVars>>

\* trigger_write_completion, lines 400-403: one iteration of the loop
TwcFlush(t) ==
    /\ pc[t] = "twc_loop"
    /\ LET u == Session(t) IN
        /\ Flushable(u)
        /\ ~closed[u]
        /\ file' = [file EXCEPT ![u] = FileWrite(u)]
        /\ buffers' = [buffers EXCEPT ![u] = Forget(u)]
        /\ part_number' = [part_number EXCEPT ![u] = NextPart(u)]
    /\ UNCHANGED <<multipart_uploaders, created, closed, exists, lock, pc, req,
                   outcome, nreq, received, arrival, etags, returned, response>>
    /\ UNCHANGED <<listVars, pathVars>>

\* trigger_write_completion, line 401 on a closed file: file.write raises
\* ValueError, the with block releases the lock and the request fails
TwcRaise(t) ==
    /\ pc[t] = "twc_loop"
    /\ LET u == Session(t) IN
        /\ Flushable(u)
        /\ closed[u]
        /\ lock' = Unlocked(u)
    /\ Finish(t, "ValueError")
    /\ UNCHANGED <<multipart_uploaders, created, part_number, buffers, file, closed,
                   exists, nreq, received, arrival, etags, returned, response>>
    /\ UNCHANGED <<listVars, pathVars>>

\* trigger_write_completion returns to write, which returns to
\* ObjectHandler.put: line 265 answers the ETag of the part
TwcReturnWrite(t) ==
    /\ pc[t] = "twc_loop"
    /\ req[t].op = "write"
    /\ LET u == Session(t) IN
        /\ ~Flushable(u)
        /\ lock' = Unlocked(u)
        /\ etags' = [etags EXCEPT ![u] = (req[t].pn :> buffers[u][req[t].pn].md5sum) @@ @]
    /\ Finish(t, "ok")
    /\ UNCHANGED <<multipart_uploaders, created, part_number, buffers, file, closed,
                   exists, nreq, received, arrival, returned, response>>
    /\ UNCHANGED <<listVars, pathVars>>

\* trigger_write_completion returns to close, line 409
TwcReturnClose(t) ==
    /\ pc[t] = "twc_loop"
    /\ req[t].op = "complete"
    /\ ~Flushable(Session(t))
    /\ lock' = Unlocked(Session(t))
    /\ pc' = [pc EXCEPT ![t] = "close_flush"]
    /\ UNCHANGED <<multipart_uploaders, created, part_number, buffers, file, closed,
                   exists, req, outcome, nreq, received, arrival, etags, returned,
                   response>>
    /\ UNCHANGED <<listVars, pathVars>>

\* _MultipartUploader.close, line 410: self.file.flush() raises ValueError
\* on a closed file
CloseFlush(t) ==
    /\ pc[t] = "close_flush"
    /\ IF closed[Session(t)]
       THEN Finish(t, "ValueError")
       ELSE pc' = [pc EXCEPT ![t] = "close_close"] /\ UNCHANGED <<req, outcome>>
    /\ UNCHANGED <<multipart_uploaders, created, part_number, buffers, file, closed,
                   exists, lock, nreq, received, arrival, etags, returned, response>>
    /\ UNCHANGED <<listVars, pathVars>>

\* _MultipartUploader.close, line 411: self.file.close()
CloseClose(t) ==
    /\ pc[t] = "close_close"
    /\ closed' = [closed EXCEPT ![Session(t)] = TRUE]
    /\ pc' = [pc EXCEPT ![t] = "close_del"]
    /\ UNCHANGED <<multipart_uploaders, created, part_number, buffers, file, exists,
                   lock, req, outcome, nreq, received, arrival, etags, returned,
                   response>>
    /\ UNCHANGED <<listVars, pathVars>>

\* lines 413 and 422: del multipart_uploaders[self.upload_id] raises KeyError
\* when the id is not a key
Registered(u) == u \in multipart_uploaders

\* mutant of CloseRemove: the id stays registered
CloseKeeps(u) == multipart_uploaders

\* line 413: del multipart_uploaders[self.upload_id]
CloseRemove(u) == multipart_uploaders \ {u}

\* mutant of AbortRemove: the id stays registered
AbortKeeps(u) == multipart_uploaders

\* mutant of AbortRemove: the registry is emptied
AbortRemoveAll(u) == {}

\* line 422: del multipart_uploaders[self.upload_id]
AbortRemove(u) == multipart_uploaders \ {u}

\* _MultipartUploader.close, lines 412-413
CloseDel(t) ==
    /\ pc[t] = "close_del"
    /\ LET u == Session(t) IN
        IF Registered(u)
        THEN /\ multipart_uploaders' = CloseRemove(u)
             /\ returned' = [returned EXCEPT ![u] = @ \cup {"close"}]
             /\ pc' = [pc EXCEPT ![t] = "post_resp"]
             /\ UNCHANGED <<req, outcome>>
        ELSE /\ Finish(t, "KeyError")
             /\ UNCHANGED <<multipart_uploaders, returned>>
    /\ UNCHANGED <<created, part_number, buffers, file, closed, exists, lock, nreq,
                   received, arrival, etags, response>>
    /\ UNCHANGED <<listVars, pathVars>>

\* mutant of PartList: the range stops one part early
PartListShort(u) == [i \in 1..(part_number[u] - 2) |-> <<i, buffers[u][i].md5sum>>]

\* ObjectHandler.post, lines 321-325: the parts the answer lists
PartList(u) == [i \in 1..(part_number[u] - 1) |-> <<i, buffers[u][i].md5sum>>]

\* ObjectHandler.post, lines 320-331: the answer to complete
PostResponse(t) ==
    /\ pc[t] = "post_resp"
    /\ response' = [response EXCEPT ![Session(t)] = @ \cup {PartList(Session(t))}]
    /\ Finish(t, "ok")
    /\ UNCHANGED <<multipart_uploaders, created, part_number, buffers, file, closed,
                   exists, lock, nreq, received, arrival, etags, returned>>
    /\ UNCHANGED <<listVars, pathVars>>

\* _MultipartUploader.abort, line 419: self.file.close()
AbortClose(t) ==
    /\ pc[t] = "abort_close"
    /\ closed' = [closed EXCEPT ![Session(t)] = TRUE]
    /\ pc' = [pc EXCEPT ![t] = "abort_unlink"]
    /\ UNCHANGED <<multipart_uploaders, created, part_number, buffers, file, exists,
                   lock, req, outcome, nreq, received, arrival, etags, returned,
                   response>>
    /\ UNCHANGED <<listVars, pathVars>>

\* _MultipartUploader.abort, line 420: os.unlink(self.path) raises OSError
\* when the path names no file
AbortUnlink(t) ==
    /\ pc[t] = "abort_unlink"
    /\ IF exists[Session(t)]
       THEN /\ exists' = [exists EXCEPT ![Session(t)] = FALSE]
            /\ pc' = [pc EXCEPT ![t] = "abort_del"]
            /\ UNCHANGED <<req, outcome>>
       ELSE /\ Finish(t, "OSError")
            /\ UNCHANGED exists
    /\ UNCHANGED <<multipart_uploaders, created, part_number, buffers, file, closed,
                   lock, nreq, received, arrival, etags, returned, response>>
    /\ UNCHANGED <<listVars, pathVars>>

\* _MultipartUploader.abort, lines 421-422, and the 204 of ObjectHandler.delete
AbortDel(t) ==
    /\ pc[t] = "abort_del"
    /\ LET u == Session(t) IN
        IF Registered(u)
        THEN /\ multipart_uploaders' = AbortRemove(u)
             /\ returned' = [returned EXCEPT ![u] = @ \cup {"abort"}]
             /\ Finish(t, "ok")
        ELSE /\ Finish(t, "KeyError")
             /\ UNCHANGED <<multipart_uploaders, returned>>
    /\ UNCHANGED <<created, part_number, buffers, file, closed, exists, lock, nreq,
                   received, arrival, etags, response>>
    /\ UNCHANGED <<listVars, pathVars>>

\* ------------------------------------------------------ the specification
\* no listing has been asked for
NoListing ==
    [done |-> FALSE, prefix |-> <<>>, marker |-> <<>>, max_keys |-> 0,
     keys |-> <<>>, truncated |-> FALSE, next_marker |-> <<>>]

\* no page has been asked for
NoWalk == [marker |-> <<>>, keys |-> <<>>]

\* no object request has been made
NoAnswer == [n |-> 0, op |-> "none", key |-> <<>>, status |-> "none", path |-> <<>>]

\* the bucket and the storage root while only uploads are looked at
ListIdle == objects = {} /\ listing = NoListing /\ walk = NoWalk
PathIdle == bucket_depth = 0 /\ dirs = {} /\ files = {} /\ answer = NoAnswer

UploadInit ==
    /\ multipart_uploaders = {}
    /\ created = {}
    /\ part_number = [u \in UploadIds |-> 1]
    /\ buffers = [u \in UploadIds |-> <<>>]
    /\ file = [u \in UploadIds |-> <<>>]
    /\ closed = [u \in UploadIds |-> FALSE]
    /\ exists = [u \in UploadIds |-> FALSE]
    /\ lock = [u \in UploadIds |-> NoThread]
    /\ pc = [t \in Threads |-> "idle"]
    /\ req = [t \in Threads |-> NoRequest]
    /\ outcome = NoOutcome
    /\ nreq = 0
    /\ received = [u \in UploadIds |-> <<>>]
    /\ arrival = [u \in UploadIds |-> <<>>]
    /\ etags = [u \in UploadIds |-> <<>>]
    /\ returned = [u \in UploadIds |-> {}]
    /\ response = [u \in UploadIds |-> {}]

Init == UploadInit /\ ListIdle /\ PathIdle

Next ==
    \E t \in Threads :
        \/ InitiateUpload(t)
        \/ PutPart(t)
        \/ CompleteUpload(t)
        \/ AbortUpload(t)
        \/ Write(t)
        \/ TwcLock(t)
        \/ TwcFlush(t)
        \/ TwcRaise(t)
        \/ TwcReturnWrite(t)
        \/ TwcReturnClose(t)
        \/ CloseFlush(t)
        \/ CloseClose(t)
        \/ CloseDel(t)
        \/ PostResponse(t)
        \/ AbortClose(t)
        \/ AbortUnlink(t)
        \/ AbortDel(t)

Spec == Init /\ [][Next]_vars

\* ------------------------------------------------- the claims on uploads
RECURSIVE Concat(_, _)
\* the bytes of parts 1..k of the accepted parts `parts`, in part-number order
Concat(parts, k) == IF k = 0 THEN <<>> ELSE Concat(parts, k - 1) \o parts[k]

\* how often write stored part pn of session u
Accepted(u, pn) == Cardinality({i \in DOMAIN arrival[u] : arrival[u][i] = pn})

\* C1: while the destination file of a session exists it holds exactly the
\* bytes of parts 1 .. part_number-1, each once, in part-number order,
\* whatever the order in which the parts arrived
C1_OrderedPrefix ==
    \A u \in created :
        exists[u] =>
            /\ 1..(part_number[u] - 1) \subseteq DOMAIN received[u]
            /\ file[u] = Concat(received[u], part_number[u] - 1)

\* C1 witness: a part that arrived before its predecessor has been flushed
\* behind it, and the two differ
C1_Witness ==
    \E u \in created :
        /\ exists[u]
        /\ part_number[u] = 3
        /\ Len(arrival[u]) >= 2 /\ arrival[u][1] = 2
        /\ received[u][1] # received[u][2]

\* C2: when complete has returned and the parts submitted are exactly 1..N,
\* each by one write_part call that returned (and no abort has deleted the
\* file), the destination file is part 1 + part 2 + ... + part N and is closed
C2_CompleteConcatenation ==
    \A u \in created : \A n \in 1..MaxPart :
        ( /\ "close" \in returned[u]
          /\ exists[u]
          /\ DOMAIN received[u] = 1..n
          /\ DOMAIN etags[u] = 1..n )
        => /\ file[u] = Concat(received[u], n)
           /\ part_number[u] = n + 1
           /\ closed[u]

\* C2 witness: write_part(2, B) then write_part(1, A) with A # B, both
\* returned, then complete returned
C2_Witness ==
    \E u \in created :
        /\ "close" \in returned[u] /\ exists[u]
        /\ arrival[u] = <<2, 1>>
        /\ DOMAIN etags[u] = {1, 2}
        /\ received[u][1] # received[u][2]
        /\ file[u] = received[u][1] \o received[u][2]

\* the step in which thread t runs the locked block of write
WriteStep(t) == pc[t] = "write" /\ pc'[t] # "write"

\* C3: a write_part for a part number the session has accepted before, be the
\* part still buffered or already flushed, fails with DuplicatePart and
\* leaves the stored parts, the flush cursor and the file as they were; a
\* part number not accepted before is accepted; so of the calls racing on one
\* part number exactly one is accepted
C3_DuplicateRejected ==
    /\ [](\A u \in created : \A pn \in PartNumbers : Accepted(u, pn) <= 1)
    /\ [][\A t \in Threads : WriteStep(t) =>
            LET u == req[t].uid
                pn == req[t].pn
            IN IF Accepted(u, pn) >= 1
               THEN /\ pc'[t] = "idle" /\ outcome'.status = "DuplicatePart"
                    /\ buffers'[u] = buffers[u]
                    /\ part_number'[u] = part_number[u]
                    /\ file'[u] = file[u]
               ELSE /\ pc'[t] = "twc_lock"
                    /\ Accepted(u, pn)' = 1
                    /\ buffers'[u][pn] = MultipartBuffer(req[t].data)
       ]_vars

\* C3 witness: DuplicatePart answered to a part that was flushed before, with
\* other bytes than the ones stored
C3_Witness ==
    /\ outcome.op = "write" /\ outcome.status = "DuplicatePart"
    /\ buffers[outcome.uid][outcome.pn].data = None
    /\ \E t \in Threads : pc[t] = "idle"

\* a complete or abort call on session u that is still running
Terminating(t, u) ==
    pc[t] # "idle" /\ req[t].uid = u /\ req[t].op \in {"complete", "abort"}

\* C5: once abort has returned the handle is closed, the destination file is
\* gone and the id is not registered, and every request on the id that starts
\* afterwards ends with NoSuchUpload; abort raises only when another complete
\* or abort call works on the same session, never for want of parts
C5_AbortRemoves ==
    /\ \A u \in created : "abort" \in returned[u] =>
            closed[u] /\ ~exists[u] /\ u \notin multipart_uploaders
    /\ \A t \in Threads : ~req[t].late
    /\ outcome.late => outcome.status = "NoSuchUpload"
    /\ (outcome.op = "abort" /\ outcome.status \notin {"ok", "NoSuchUpload"}) =>
            \/ returned[outcome.uid] # {}
            \/ \E t \in Threads : Terminating(t, outcome.uid)

\* C5 witness: abort returned on a session that never received a part, and a
\* write_part that started afterwards was answered NoSuchUpload
C5_Witness ==
    /\ outcome.op = "write" /\ outcome.late /\ outcome.status = "NoSuchUpload"
    /\ returned[outcome.uid] = {"abort"}
    /\ arrival[outcome.uid] = <<>>

\* the claim C6 as stated: complete answers one pair for every part number
\* write_part ever accepted, flushed or not, with the checksum of the part
C6_AllAcceptedReported ==
    \A u \in created : \A r \in response[u] :
        /\ {r[i][1] : i \in DOMAIN r} = DOMAIN received[u]
        /\ \A i \in DOMAIN r : r[i][2] = Md5(received[u][r[i][1]])

\* C6 as amended: complete answers one pair for every part number in
\* 1 .. part_number-1, the parts flushed to the file, in order, each with the
\* checksum of the bytes accepted for it, which is the ETag write_part
\* returned for the part; parts accepted beyond an unfilled gap are not listed
C6_FlushedReported ==
    \A u \in created : \A r \in response[u] :
        /\ Len(r) = part_number[u] - 1
        /\ \A i \in 1..Len(r) :
            /\ i \in DOMAIN received[u]
            /\ r[i] = <<i, Md5(received[u][i])>>
            /\ i \in DOMAIN etags[u] => etags[u][i] = r[i][2]

\* C6 witness: complete answered part 1 alone while part 2 was never
\* accepted and a part beyond the gap stays buffered with its bytes
C6_Witness ==
    \E u \in created : \E r \in response[u] :
        /\ Len(r) = 1
        /\ 1 \in DOMAIN etags[u]
        /\ \E p \in DOMAIN buffers[u] : p > part_number[u] /\ buffers[u][p].data # None

\* the claim C7 as stated: removing an id that is not registered is no error,
\* so no complete or abort call ends with the KeyError of the del statement
C7_RemoveAbsentIsNoError ==
    outcome.op \in {"complete", "abort"} => outcome.status # "KeyError"

\* the claim C8 as stated: once complete or abort has returned, no call
\* changes the buffered parts, the flush cursor or the destination file
C8_TerminalIsFrozen ==
    [][\A u \in created : returned[u] # {} =>
            /\ buffers'[u] = buffers[u]
            /\ part_number'[u] = part_number[u]
            /\ file'[u] = file[u]
      ]_vars

\* ------------------------------------------------------------- strings
\* A string is a sequence of characters.  The characters of the model, in
\* the order of their byte values, which is the order str comparison uses.
Alphabet == <<".", "/", "0", "a", "b">>

Ord(c) == CHOOSE i \in DOMAIN Alphabet : Alphabet[i] = c

RECURSIVE StrLess(_, _)
\* a < b on str
StrLess(a, b) ==
    IF a = <<>> THEN b # <<>>
    ELSE IF b = <<>> THEN FALSE
    ELSE IF a[1] = b[1] THEN StrLess(Tail(a), Tail(b))
    ELSE Ord(a[1]) < Ord(b[1])

\* str.startswith
StartsWith(s, prefix) ==
    Len(prefix) <= Len(s) /\ SubSeq(s, 1, Len(prefix)) = prefix

\* the strings over `chars` of length lo..hi
Strings(chars, lo, hi) == UNION {[1..n -> chars] : n \in lo..hi}

\* ----------------------------------------------------- BucketHandler.get
MaxKeyLen == 2
MaxStored == 3
MaxArgLen == 1
MaxMaxKeys == 2

KeyChars == {"a", "b"}
\* object keys: the route r"/([^/]+)/(.+)" admits no empty key
Keys == Strings(KeyChars, 1, MaxKeyLen)
\* prefix and marker arguments, "" when absent
ListArgs == Strings(KeyChars, 0, MaxArgLen)
\* int(self.get_argument("max-keys", 50000)): any integer
MaxKeysArgs == -1..MaxMaxKeys

RECURSIVE Sorted(_)
\* lines 154-162: the object names of the bucket, sorted
Sorted(S) ==
    IF S = {} THEN <<>>
    ELSE LET least == CHOOSE x \in S : \A y \in S : x = y \/ StrLess(x, y)
         IN <<least>> \o Sorted(S \ {least})

RECURSIVE BisectLeft(_, _, _, _)
\* bisect.bisect_left(a, x, lo, hi), positions counted from 0
BisectLeft(a, x, lo, hi) ==
    IF lo < hi
    THEN LET mid == (lo + hi) \div 2
         IN IF StrLess(a[mid + 1], x) THEN BisectLeft(a, x, mid + 1, hi)
                                      ELSE BisectLeft(a, x, lo, mid)
    ELSE lo

\* mutant of BisectRight: the position before the entries equal to x
BisectRightIsLeft(a, x, lo, hi) == BisectLeft(a, x, lo, hi)

RECURSIVE BisectRight(_, _, _, _)
\* bisect.bisect_right(a, x, lo, hi), positions counted from 0
BisectRight(a, x, lo, hi) ==
    IF lo < hi
    THEN LET mid == (lo + hi) \div 2
         IN IF StrLess(x, a[mid + 1]) THEN BisectRight(a, x, lo, mid)
                                      ELSE BisectRight(a, x, mid + 1, hi)
    ELSE lo

\* lines 165-169: where the scan starts
StartPos(names, prefix, marker) ==
    LET afterMarker == IF marker # <<>>
                       THEN BisectRight(names, marker, 0, Len(names)) ELSE 0
    IN IF prefix # <<>>
       THEN BisectLeft(names, prefix, afterMarker, Len(names)) ELSE afterMarker

RECURSIVE ScanCountsFirst(_, _, _, _, _, _)
\* mutant of Scan: the count is tested before the prefix
ScanCountsFirst(names, pos, prefix, max_keys, contents, marker) ==
    IF pos >= Len(names)
    THEN [keys |-> contents, truncated |-> FALSE, next_marker |-> marker]
    ELSE IF Len(contents) >= max_keys
    THEN [keys |-> contents, truncated |-> TRUE, next_marker |-> marker]
    ELSE IF ~StartsWith(names[pos + 1], prefix)
    THEN [keys |-> contents, truncated |-> FALSE, next_marker |-> marker]
    ELSE ScanCountsFirst(names, pos + 1, prefix, max_keys,
                         Append(contents, names[pos + 1]), names[pos + 1])

RECURSIVE ScanKeepsMarker(_, _, _, _, _, _)
\* mutant of Scan: the marker is not moved to the key collected
ScanKeepsMarker(names, pos, prefix, max_keys, contents, marker) ==
    IF pos >= Len(names)
    THEN [keys |-> contents, truncated |-> FALSE, next_marker |-> marker]
    ELSE IF ~StartsWith(names[pos + 1], prefix)
    THEN [keys |-> contents, truncated |-> FALSE, next_marker |-> marker]
    ELSE IF Len(contents) >= max_keys
    THEN [keys |-> contents, truncated |-> TRUE, next_marker |-> marker]
    ELSE ScanKeepsMarker(names, pos + 1, prefix, max_keys,
                         Append(contents, names[pos + 1]), marker)

RECURSIVE Scan(_, _, _, _, _, _)
\* lines 171-188: the loop over object_names[start_pos:]
Scan(names, pos, prefix, max_keys, contents, marker) ==
    IF pos >= Len(names)
    THEN [keys |-> contents, truncated |-> FALSE, next_marker |-> marker]
    ELSE IF ~StartsWith(names[pos + 1], prefix)
    THEN [keys |-> contents, truncated |-> FALSE, next_marker |-> marker]
    ELSE IF Len(contents) >= max_keys
    THEN [keys |-> contents, truncated |-> TRUE, next_marker |-> marker]
    ELSE Scan(names, pos + 1, prefix, max_keys,
              Append(contents, names[pos + 1]), names[pos + 1])

\* BucketHandler.get, lines 154-196: Contents, IsTruncated and Marker of the
\* answer
ListKeys(stored, prefix, marker, max_keys) ==
    LET names == Sorted(stored)
    IN Scan(names, StartPos(names, prefix, marker), prefix, max_keys, <<>>, marker)

\* BucketHandler.get up to line 188
ListBucket ==
    /\ ~listing.done
    /\ \E prefix \in ListArgs, marker \in ListArgs, max_keys \in MaxKeysArgs :
        LET got == ListKeys(objects, prefix, marker, max_keys)
        IN /\ listing' = [done |-> TRUE, prefix |-> prefix, marker |-> marker,
                          max_keys |-> max_keys, keys |-> got.keys,
                          truncated |-> got.truncated,
                          next_marker |-> got.next_marker]
           /\ walk' = [marker |-> marker, keys |-> got.keys]
    /\ UNCHANGED <<objects, uploadVars, pathVars>>

\* BucketHandler.get asked for the next page: the same prefix and max-keys,
\* and for marker the Marker of the answer before
ListNextPage ==
    /\ listing.done
    /\ listing.truncated
    /\ LET got == ListKeys(objects, listing.prefix, listing.next_marker,
                           listing.max_keys)
       IN /\ listing' = [listing EXCEPT !.marker = listing.next_marker,
                                        !.keys = got.keys,
                                        !.truncated = got.truncated,
                                        !.next_marker = got.next_marker]
          /\ walk' = [walk EXCEPT !.keys = @ \o got.keys]
    /\ UNCHANGED <<objects, uploadVars, pathVars>>

\* ObjectHandler.put without uploadId, lines 266-269: the object is stored
StoreObject ==
    /\ ~listing.done
    /\ Cardinality(objects) < MaxStored
    /\ \E k \in Keys \ objects : objects' = objects \cup {k}
    /\ listing' = NoListing
    /\ walk' = NoWalk
    /\ UNCHANGED <<uploadVars, pathVars>>

\* ObjectHandler.delete without uploadId, lines 301-306
RemoveObject ==
    /\ ~listing.done
    /\ \E k \in objects : objects' = objects \ {k}
    /\ listing' = NoListing
    /\ walk' = NoWalk
    /\ UNCHANGED <<uploadVars, pathVars>>

\* BucketHandler.get, lines 189-196: the answer is rendered and the request
\* is over
RenderListing ==
    /\ listing.done
    /\ listing' = NoListing
    /\ walk' = NoWalk
    /\ UNCHANGED <<objects, uploadVars, pathVars>>

ListInit == UploadInit /\ ListIdle /\ PathIdle

ListNext == ListBucket \/ ListNextPage \/ RenderListing \/ StoreObject \/ RemoveObject

SpecList == ListInit /\ [][ListNext]_vars

\* ------------------------------------------------ the claims on listing
\* the stored keys a listing is to return: those that start with its prefix
\* and sort after its marker
Matching(l) == {k \in objects : StartsWith(k, l.prefix) /\ StrLess(l.marker, k)}

\* the keys a listing returned
Returned(l) == {l.keys[i] : i \in DOMAIN l.keys}

\* C9: list_keys returns, ascending and without duplicates, exactly the
\* first max_keys of the stored keys that start with prefix and sort after
\* marker (the marker itself is left out)
C9_ListSelects ==
    listing.done =>
        /\ \A i \in 1..(Len(listing.keys) - 1) :
                StrLess(listing.keys[i], listing.keys[i + 1])
        /\ Returned(listing) \subseteq Matching(listing)
        /\ \A k \in Matching(listing) \ Returned(listing) :
                \A r \in Returned(listing) : StrLess(r, k)
        /\ Len(listing.keys) =
                IF listing.max_keys <= 0 THEN 0
                ELSE IF Cardinality(Matching(listing)) < listing.max_keys
                THEN Cardinality(Matching(listing)) ELSE listing.max_keys

\* C9 witness: a listing with a prefix and a marker that is a stored key
\* with that prefix; the marker is left out and a later key is returned
C9_Witness ==
    /\ listing.done
    /\ listing.prefix # <<>>
    /\ listing.marker \in objects
    /\ StartsWith(listing.marker, listing.prefix)
    /\ listing.keys # <<>>
    /\ \E k \in objects : StrLess(k, listing.marker)

\* C10: truncated is true exactly when the scan stopped at max_keys collected
\* keys with a further key that starts with prefix and sorts after marker
\* left unreturned; it is false when the next key does not start with prefix
\* or the keys are used up, also when exactly max_keys keys match
C10_TruncatedExact ==
    listing.done =>
        /\ listing.truncated <=> Matching(listing) \ Returned(listing) # {}
        /\ listing.truncated =>
                Len(listing.keys) = (IF listing.max_keys <= 0 THEN 0 ELSE listing.max_keys)

\* C10 witness: exactly max_keys keys match, a stored key that does not start
\* with prefix follows them, and truncated is false
C10_Witness ==
    /\ listing.done
    /\ listing.max_keys >= 1
    /\ Len(listing.keys) = listing.max_keys
    /\ ~listing.truncated
    /\ \E k \in objects :
        /\ ~StartsWith(k, listing.prefix)
        /\ StrLess(listing.keys[Len(listing.keys)], k)

\* ------------------------------------------------------------ posixpath
Slash == <<"/">>

\* the position of the first "/" of p, 0 when it has none
FirstSlash(p) ==
    IF \E i \in DOMAIN p : p[i] = "/"
    THEN CHOOSE i \in DOMAIN p : p[i] = "/" /\ \A j \in 1..(i - 1) : p[j] # "/"
    ELSE 0

\* the position of the last "/" of p, 0 when it has none
LastSlash(p) ==
    IF \E i \in DOMAIN p : p[i] = "/"
    THEN CHOOSE i \in DOMAIN p : p[i] = "/" /\ \A j \in (i + 1)..Len(p) : p[j] # "/"
    ELSE 0

RECURSIVE SplitSlash(_)
\* str.split('/')
SplitSlash(p) ==
    IF FirstSlash(p) = 0 THEN <<p>>
    ELSE <<SubSeq(p, 1, FirstSlash(p) - 1)>>
             \o SplitSlash(SubSeq(p, FirstSlash(p) + 1, Len(p)))

RECURSIVE JoinSlash(_)
\* '/'.join(comps)
JoinSlash(comps) ==
    IF comps = <<>> THEN <<>>
    ELSE IF Len(comps) = 1 THEN comps[1]
    ELSE comps[1] \o Slash \o JoinSlash(Tail(comps))

RECURSIVE RStripSlash(_)
\* str.rstrip('/')
RStripSlash(p) ==
    IF p # <<>> /\ p[Len(p)] = "/" THEN RStripSlash(SubSeq(p, 1, Len(p) - 1)) ELSE p

\* os.path.join(a, b)
PathJoin(a, b) ==
    IF b # <<>> /\ b[1] = "/" THEN b
    ELSE IF a = <<>> \/ a[Len(a)] = "/" THEN a \o b
    ELSE a \o Slash \o b

RECURSIVE NormComps(_, _, _)
\* the loop of os.path.normpath over the components
NormComps(comps, new, rooted) ==
    IF comps = <<>> THEN new
    ELSE LET comp == comps[1]
             rest == Tail(comps)
         IN IF comp = <<>> \/ comp = <<".">> THEN NormComps(rest, new, rooted)
            ELSE IF \/ comp # <<".", ".">>
                    \/ (~rooted /\ new = <<>>)
                    \/ (new # <<>> /\ new[Len(new)] = <<".", ".">>)
            THEN NormComps(rest, Append(new, comp), rooted)
            ELSE IF new # <<>> THEN NormComps(rest, SubSeq(new, 1, Len(new) - 1), rooted)
            ELSE NormComps(rest, new, rooted)

\* os.path.normpath, its last lines: the initial slashes put back in front
\* of the joined components, and "." for an empty result
NormWhole(p, body) ==
    IF Len(p) >= 2 /\ p[1] = "/" /\ p[2] = "/" /\ (Len(p) = 2 \/ p[3] # "/")
    THEN Slash \o Slash \o body
    ELSE IF p # <<>> /\ p[1] = "/" THEN Slash \o body
    ELSE IF body = <<>> THEN <<".">>
    ELSE body

\* os.path.normpath
NormPath(p) ==
    NormWhole(p, JoinSlash(NormComps(SplitSlash(p), <<>>, p # <<>> /\ p[1] = "/")))

\* os.path.abspath of a path that is absolute, as all paths built on the
\* storage root are
AbsPath(p) == NormPath(p)

\* os.path.split, the head without its trailing slashes unless it is all
\* slashes
SplitHead(head) ==
    IF head # <<>> /\ RStripSlash(head) # <<>> THEN RStripSlash(head) ELSE head

\* os.path.split at the last slash, position i
SplitAt(p, i) == [head |-> SplitHead(SubSeq(p, 1, i)), tail |-> SubSeq(p, i + 1, Len(p))]

\* os.path.split
PosixSplit(p) == SplitAt(p, LastSlash(p))

\* os.path.dirname
DirName(p) == PosixSplit(p).head

\* ------------------------------------------------------ the file system
\* Directories and files are named by their normalised absolute paths.  The
\* kernel resolves a path component by component: every component but the
\* last must name a directory, ".." names the parent.
Root == Slash

\* the parent of a directory, Root being its own
Parent(dir) == DirName(dir)

Child(dir, name) == IF dir = Root THEN Root \o name ELSE dir \o Slash \o name

RECURSIVE Walk(_, _, _)
\* the directory reached from `cur` along `comps`, or <<>> when a component
\* on the way names no directory of d
Walk(cur, comps, d) ==
    IF cur \notin d THEN <<>>
    ELSE IF comps = <<>> THEN cur
    ELSE IF comps[1] = <<>> \/ comps[1] = <<".">> THEN Walk(cur, Tail(comps), d)
    ELSE IF comps[1] = <<".", ".">> THEN Walk(Parent(cur), Tail(comps), d)
    ELSE Walk(Child(cur, comps[1]), Tail(comps), d)

\* the components of p without the empty ones a trailing "/" leaves
Comps(p) == SplitSlash(RStripSlash(p))

\* the entry the component `last` names in the directory dir
LocateLast(p, dir, last) ==
    [dir |-> dir,
     at |-> IF dir = <<>> THEN <<>>
            ELSE IF last = <<".", ".">> THEN Parent(dir)
            ELSE IF last = <<>> \/ last = <<".">> THEN dir
            ELSE Child(dir, last),
     isdir |-> last \in {<<>>, <<".">>, <<".", ".">>} \/ p[Len(p)] = "/"]

\* the path walked down to its last component
LocateComps(p, comps, d) ==
    LocateLast(p, Walk(Root, SubSeq(comps, 1, Len(comps) - 1), d), comps[Len(comps)])

\* what the absolute path p names: [dir: the directory holding the entry or
\* <<>> when it cannot be reached, at: the entry, isdir: the entry must be a
\* directory]
Locate(p, d) == LocateComps(p, Comps(p), d)

\* os.path.isdir
IsDir(p, d) == Locate(p, d).at \in d

\* the entry l is a directory, or a file not named as a directory
Present(l, d, f) == l.at \in d \/ (l.at \in f /\ ~l.isdir)

\* os.path.exists
Exists(p, d, f) == Present(Locate(p, d), d, f)

\* os.mkdir of the entry l
MkDirAt(l, d, f) ==
    IF l.dir = <<>> THEN [dirs |-> d, err |-> "ENOENT"]
    ELSE IF l.at \in d \cup f THEN [dirs |-> d, err |-> "EEXIST"]
    ELSE [dirs |-> d \cup {l.at}, err |-> ""]

\* os.mkdir(p): the directories afterwards and the errno raised, "" for none
MkDir(p, d, f) == MkDirAt(Locate(p, d), d, f)

RECURSIVE MakeDirs(_, _, _)
\* os.makedirs after the ancestors were made: EEXIST of an ancestor is passed
\* over, a tail "." is left alone, then os.mkdir(name)
MakeDirsLast(name, tail, made, f) ==
    IF made.err \notin {"", "EEXIST"} THEN made
    ELSE IF tail = <<".">> THEN [dirs |-> made.dirs, err |-> ""]
    ELSE MkDir(name, made.dirs, f)

\* os.makedirs with name split into head and tail: a missing head is made
\* first
MakeDirsFrom(name, split, d, f) ==
    IF split.head # <<>> /\ split.tail # <<>> /\ ~Exists(split.head, d, f)
    THEN MakeDirsLast(name, split.tail, MakeDirs(split.head, d, f), f)
    ELSE MkDir(name, d, f)

\* os.makedirs, the split taken again when name ends in "/"
MakeDirsSplit(first) == IF first.tail = <<>> THEN PosixSplit(first.head) ELSE first

\* os.makedirs(name): it makes the missing ancestors, passing over their
\* EEXIST, and then os.mkdir(name)
MakeDirs(name, d, f) == MakeDirsFrom(name, MakeDirsSplit(PosixSplit(name)), d, f)

\* open for writing of the entry l
OpenWriteAt(l, d, f) ==
    IF l.dir = <<>> THEN [files |-> f, at |-> <<>>, err |-> "ENOENT"]
    ELSE IF l.isdir \/ l.at \in d THEN [files |-> f, at |-> <<>>, err |-> "EISDIR"]
    ELSE [files |-> f \cup {l.at}, at |-> l.at, err |-> ""]

\* open(p, "w"): the files afterwards, the file opened and the errno raised
OpenWrite(p, d, f) == OpenWriteAt(Locate(p, d), d, f)

\* --------------------------------------------------------- object paths
MaxDepth == 2
MaxSegs == 3
MaxObjectRequests == 2

\* S3Application.directory, an absolute normalised path
Directory == <<"/", "r">>
\* the bucket of the requests, and a second bucket beside it
Bucket == <<"b">>
Sibling == <<"b", "b">>
BucketDir == AbsPath(PathJoin(Directory, Bucket))

\* the object names of the requests: "/"-joined segments, and some with an
\* absolute prefix, a trailing "/" or the name of the second bucket
Segs == {<<".", ".">>, <<"a">>}
SegKeys == {JoinSlash(ss) : ss \in UNION {[1..n -> Segs] : n \in 1..MaxSegs}}
MoreKeys ==
    { <<"/", "a">>, <<"a", "/">>,
      <<".", ".", "/", "b", "b">>, <<".", ".", "/", "b", "b", "/", "a">> }
ObjectNames == SegKeys \cup MoreKeys

\* hashlib.md5(object_name).hexdigest(): 32 hexadecimal digits that depend
\* on the name
HexDigest(name) == [i \in 1..32 |-> IF (Len(name) + i) % 2 = 0 THEN "0" ELSE "a"]

RECURSIVE Sharded(_, _, _, _)
\* lines 121-122: the shard directories hash[:2], hash[:4], ... appended
Sharded(path, hash, i, depth) ==
    IF i >= depth THEN path
    ELSE Sharded(PathJoin(path, SubSeq(hash, 1, 2 * (i + 1))), hash, i + 1, depth)

\* BaseRequestHandler._object_path
ObjectPath(bucket, name, depth) ==
    IF depth < 1
    THEN AbsPath(PathJoin(PathJoin(Directory, bucket), name))
    ELSE PathJoin(Sharded(AbsPath(PathJoin(Directory, bucket)),
                          HexDigest(name), 0, depth), name)

\* ObjectHandler.put line 267, _MultipartUploader.__init__ line 383: the
\* outcome of open(path, "w")
ObjectOpened(made, opened, f) ==
    IF opened.err # ""
    THEN [status |-> "IOError", dirs |-> made.dirs, files |-> f, path |-> <<>>]
    ELSE [status |-> "200", dirs |-> made.dirs, files |-> opened.files,
          path |-> opened.at]

\* ObjectHandler.put lines 254-256, ObjectHandler.post lines 346-348: the
\* outcome of os.makedirs, and the file opened in the directories it left
ObjectMade(path, made, f) ==
    IF made.err # ""
    THEN [status |-> "OSError", dirs |-> made.dirs, files |-> f, path |-> <<>>]
    ELSE ObjectOpened(made, OpenWrite(path, made.dirs, f), f)

\* ObjectHandler.put lines 247-256, ObjectHandler.post lines 339-348: the
\* checks on bucket_dir and path, and the directory of path made when absent
ObjectChecked(bucket_dir, path, d, f) ==
    IF ~StartsWith(bucket_dir, Directory) \/ ~IsDir(bucket_dir, d)
    THEN [status |-> "404", dirs |-> d, files |-> f, path |-> <<>>]
    ELSE IF ~StartsWith(path, bucket_dir) \/ IsDir(path, d)
    THEN [status |-> "403", dirs |-> d, files |-> f, path |-> <<>>]
    ELSE ObjectMade(path,
                    IF Exists(DirName(path), d, f) THEN [dirs |-> d, err |-> ""]
                    ELSE MakeDirs(DirName(path), d, f),
                    f)

\* ObjectHandler.put lines 246-256 and 267, ObjectHandler.post lines 338-350
\* with _MultipartUploader.__init__ line 383: the checks, the directories
\* made and the file opened for writing
OpenObject(name, depth, d, f) ==
    ObjectChecked(AbsPath(PathJoin(Directory, Bucket)),
                  ObjectPath(Bucket, name, depth), d, f)

ObjectRequest(op, name) ==
    /\ answer.n < MaxObjectRequests
    /\ LET got == OpenObject(name, bucket_depth, dirs, files)
       IN /\ dirs' = got.dirs
          /\ files' = got.files
          /\ answer' = [n |-> answer.n + 1, op |-> op, key |-> name,
                        status |-> got.status, path |-> got.path]
    /\ UNCHANGED <<bucket_depth, uploadVars, listVars>>

\* ObjectHandler.put without uploadId
PutObject == \E name \in ObjectNames : ObjectRequest("put", name)

\* ObjectHandler.post with ?uploads
PostUploads == \E name \in ObjectNames : ObjectRequest("uploads", name)

\* S3Application.__init__ and two buckets made by BucketHandler.put
PathInit ==
    /\ UploadInit /\ ListIdle
    /\ bucket_depth \in 0..MaxDepth
    /\ dirs = {Root, Directory, BucketDir, AbsPath(PathJoin(Directory, Sibling))}
    /\ files = {}
    /\ answer = NoAnswer

PathNext == PutObject \/ PostUploads

SpecPath == PathInit /\ [][PathNext]_vars

\* --------------------------------------------------- the claim on paths
\* p lies below the directory dir
Below(p, dir) == StartsWith(p, dir \o Slash) /\ Len(p) > Len(dir) + 1

\* the claim C4 as stated: whatever the shard depth and the key, a request
\* either is refused before anything on the file system changes or works
\* below the bucket directory: no file is written and no directory made
\* outside it
C4_StaysInBucket ==
    /\ \A file_path \in files : Below(file_path, BucketDir)
    /\ \A dir \in dirs :
            dir \in {Root, Directory, BucketDir, AbsPath(PathJoin(Directory, Sibling))}
            \/ Below(dir, BucketDir)
\* ------------------------------------------- the names a listing recovers
RECURSIVE ShardSkip(_, _)
\* BucketHandler.get lines 159-160: 2 * (i + 1) + 1 characters for each of
\* the shard directories i .. depth-1
ShardSkip(i, depth) ==
    IF i >= depth THEN 0 ELSE 2 * (i + 1) + 1 + ShardSkip(i + 1, depth)

\* lines 158-160: skip = len(path) + 1, and the shard directories
Skip(path, depth) == Len(path) + 1 + ShardSkip(0, depth)

\* line 161: n[skip:] of a file os.walk found under the bucket directory
ListedName(n, depth) ==
    SubSeq(n, Skip(AbsPath(PathJoin(Directory, Bucket)), depth) + 1, Len(n))

\* the claim C11 as stated: whatever the shard depth and the key, the file a
\* request has stored below the bucket directory is listed under the key it
\* was stored with: stripping the bucket directory and the shard prefix from
\* its path gives back the key
C11_RoundTrip ==
    (answer.status = "200" /\ Below(answer.path, BucketDir)) =>
        ListedName(answer.path, bucket_depth) = answer.key

\* --------------------------------------- the claims on uploads, continued
\* a write_part call on session u that is still running
Writing(t, u) == pc[t] # "idle" /\ req[t].uid = u /\ req[t].op = "write"

\* session u is Receiving: it is registered and its file handle is open,
\* neither complete nor abort has closed it
Receiving(u) == u \in multipart_uploaders /\ ~closed[u]

\* C12: whenever no write_part call is in progress on a Receiving session,
\* part_number is not among the stored parts: the parts 1 .. part_number-1
\* flushed to the file are the largest gap-free prefix of the parts received,
\* and every part received beyond the gap is still stored with its bytes
C12_LargestPrefixFlushed ==
    \A u \in created :
        (Receiving(u) /\ \A t \in Threads : ~Writing(t, u)) =>
            /\ part_number[u] \notin DOMAIN buffers[u]
            /\ DOMAIN buffers[u] = DOMAIN received[u]
            /\ 1..(part_number[u] - 1) \subseteq DOMAIN received[u]
            /\ file[u] = Concat(received[u], part_number[u] - 1)
            /\ \A pn \in DOMAIN buffers[u] :
                    pn > part_number[u] => buffers[u][pn].data = received[u][pn]

\* C12 witness: part 3 and then part 1 were written and both calls are over;
\* part 1 is flushed, part 2 is the gap and part 3 is stored with its bytes
C12_Witness ==
    \E u \in created :
        /\ Receiving(u) /\ \A t \in Threads : ~Writing(t, u)
        /\ arrival[u] = <<3, 1>>
        /\ part_number[u] = 2
        /\ file[u] = received[u][1]
        /\ buffers[u][3].data = received[u][3]

\* the claim C13 as stated: the file handle is written, flushed and closed
\* under the session lock only, so no call attempts to write to the handle
\* or to flush it after it has been closed: no request ends with the
\* ValueError that file.write and file.flush raise on a closed file
C13_NoUseAfterClose == outcome.status # "ValueError"

\* a step of a request in progress: every action but the arrival of a request
Progress(t) ==
    \/ Write(t) \/ TwcLock(t) \/ TwcFlush(t) \/ TwcRaise(t)
    \/ TwcReturnWrite(t) \/ TwcReturnClose(t)
    \/ CloseFlush(t) \/ CloseClose(t) \/ CloseDel(t) \/ PostResponse(t)
    \/ AbortClose(t) \/ AbortUnlink(t) \/ AbortDel(t)

\* the positions of a request inside a `with multipart_uploaders_lock` block:
\* the factory call that opens a request (taken from "idle") and the del
\* statements of close and abort
AtRegistry(t) == pc[t] \in {"idle", "close_del", "abort_del"}

\* C14: the holder of a session lock is inside trigger_write_completion and
\* nowhere else, a request that is at a block under the registry lock holds
\* no session lock, and the requests never block one another for good: as
\* long as a request is in progress some request can take a step
C14_NoDeadlock ==
    /\ \A u \in UploadIds : lock[u] # NoThread =>
            pc[lock[u]] = "twc_loop" /\ req[lock[u]].uid = u
    /\ \A t \in Threads : AtRegistry(t) => \A u \in UploadIds : lock[u] # t
    /\ (\E t \in Threads : pc[t] # "idle") => \E t \in Threads : ENABLED Progress(t)

\* C14 witness: one request holds the lock of a session while another
\* request on the same session waits for that lock
C14_Witness ==
    \E t, s \in Threads :
        /\ t # s
        /\ pc[t] = "twc_loop"
        /\ pc[s] \in {"write", "twc_lock"}
        /\ Session(s) = Session(t)
        /\ lock[Session(t)] = t

\* the claim C15 as stated: in every state a stored part holds its bytes if
\* and only if its number is at least part_number, and every stored part
\* keeps the checksum of the bytes it was stored with
C15_BytesIffUnflushed ==
    \A u \in created : \A pn \in DOMAIN buffers[u] :
        /\ buffers[u][pn].data # None <=> pn >= part_number[u]
        /\ buffers[u][pn].md5sum = Md5(received[u][pn])

\* the claim C18 as stated: every part number write_part stores is a positive
\* integer, so the stored parts are all within reach of the ordered flush
C18_PositivePartNumbers ==
    \A u \in created : \A pn \in DOMAIN buffers[u] : pn >= 1

\* the state of session u
SessionState(u) ==
    <<part_number[u], buffers[u], file[u], closed[u], exists[u], lock[u]>>

\* C17: an upload id is registered from the step in which begin made it until
\* complete or abort of its session returns, and never again afterwards;
\* begin registers an id that was never made before, one at a time, and
\* leaves the sessions of the ids made before as they are
C17_RegistryLifetime ==
    /\ [](multipart_uploaders = {u \in created : returned[u] = {}})
    /\ [][/\ created \subseteq created'
          /\ \A u \in created : u \notin multipart_uploaders =>
                u \notin multipart_uploaders'
          /\ created' # created =>
                /\ Cardinality(created' \ created) = 1
                /\ multipart_uploaders' = multipart_uploaders \cup (created' \ created)
                /\ \A u \in created : SessionState(u)' = SessionState(u)
       ]_vars

\* C17 witness: of two uploads begun, one was completed and is gone from the
\* registry while the other, which has received a part, is still registered
C17_Witness ==
    \E u, v \in created :
        /\ returned[u] = {"close"} /\ u \notin multipart_uploaders
        /\ returned[v] = {} /\ v \in multipart_uploaders
        /\ arrival[v] # <<>>

\* a step that is not a step of a write_part, complete or abort call on
\* session u: no call in progress on u moves on (a call that steps changes
\* its position, but for an iteration of the flush loop); what is left are
\* the steps of calls on other sessions and the arrival of requests (begin
\* of another upload, the lookup of a session)
OtherStep(u) ==
    \A t \in Threads :
        (pc[t] # "idle" /\ Session(t) = u) => (pc'[t] = pc[t] /\ ~TwcFlush(t))

\* C20: a step of write_part, complete or abort on one upload id, and begin
\* of another upload, leave every other session as it is: its stored parts,
\* its flush cursor, its file and handle, its lock and its registry entry
C20_OtherSessionsUntouched ==
    [][\A u \in created :
            OtherStep(u) =>
                /\ SessionState(u)' = SessionState(u)
                /\ (u \in multipart_uploaders') = (u \in multipart_uploaders)
                /\ received'[u] = received[u]
      ]_vars

\* C20 witness: of two sessions one was aborted while the other, which has
\* flushed a part, holds that part in its file and is still registered
C20_Witness ==
    \E u, v \in created :
        /\ u # v
        /\ returned[u] = {"abort"}
        /\ v \in multipart_uploaders /\ part_number[v] = 2 /\ file[v] # <<>>

\* ------------------------------------------------------------- fairness
\* Requests are served by threads of their own: a request that can take a
\* step is not left waiting for ever.  No request is bound to arrive.
Fair == \A t \in Threads : WF_vars(Progress(t))

SpecFair == Init /\ [][Next]_vars /\ Fair

\* C19: under fair scheduling every write_part call comes to its end, and a
\* part whose predecessors 1 .. n-1 have all been received is appended to the
\* file by the calls in progress, no further request being needed, unless
\* the session stops Receiving first
C19_WritesComplete ==
    /\ \A t \in Threads : (req[t].op = "write") ~> (pc[t] = "idle")
    /\ \A u \in UploadIds : \A n \in 1..MaxPart :
            (Receiving(u) /\ 1..n \subseteq DOMAIN received[u])
                ~> (part_number[u] > n \/ ~Receiving(u))

\* C19 witness: the call that stored part 2 has not yet entered
\* trigger_write_completion, and part 2 is in the file already, appended by
\* the call that stored part 1
C19_Witness ==
    \E t \in Threads :
        /\ pc[t] = "twc_lock" /\ req[t].op = "write" /\ req[t].pn = 2
        /\ Receiving(Session(t))
        /\ part_number[Session(t)] = 3

\* ---------------------------------------------- the claim on pagination
\* the stored keys a walk through the pages is to visit: those that start
\* with the prefix and sort after the marker of its first page
ToVisit == {k \in objects : StartsWith(k, listing.prefix) /\ StrLess(walk.marker, k)}

\* C16: with max_keys >= 1, asking for page after page with the same prefix
\* and the marker of the answer before visits keys that start with the
\* prefix, in ascending order and each once; a truncated page holds at least
\* one key and its marker, its last key, is beyond the marker it was asked
\* with; a page without keys answers the marker it was asked with; and when
\* a page is not truncated every key with the prefix has been visited
C16_PagesVisitAll ==
    (listing.done /\ listing.max_keys >= 1) =>
        /\ \A i \in 1..(Len(walk.keys) - 1) : StrLess(walk.keys[i], walk.keys[i + 1])
        /\ {walk.keys[i] : i \in DOMAIN walk.keys} \subseteq ToVisit
        /\ listing.truncated =>
                /\ listing.keys # <<>>
                /\ StrLess(listing.marker, listing.next_marker)
        /\ listing.next_marker =
                IF listing.keys = <<>> THEN listing.marker
                ELSE listing.keys[Len(listing.keys)]
        /\ ~listing.truncated => {walk.keys[i] : i \in DOMAIN walk.keys} = ToVisit

\* C16 witness: two pages of one key each have visited the two keys with the
\* prefix; the second page was asked with the marker of the first and is not
\* truncated, and a key without the prefix is stored behind them
C16_Witness ==
    /\ listing.done /\ listing.max_keys = 1 /\ listing.prefix # <<>>
    /\ Len(walk.keys) = 2
    /\ listing.marker = walk.keys[1]
    /\ ~listing.truncated
    /\ \E k \in objects : ~StartsWith(k, listing.prefix) /\ StrLess(walk.keys[2], k)
====
